---- MODULE Spec2Model ----
(***************************************************************************)
(* Clean WAV registry (p05_data_models/clean_wav_registry.py) and the      *)
(* scanner that fills it (scan_wav_files.py).                              *)
(*                                                                         *)
(* Text is modelled as a sequence of one-character strings, so that        *)
(* str.lower() and str.strip() are computed character by character.        *)
(* A DroneType member and a raw label are both records                     *)
(* [enum, value]: DroneType is a str-backed Enum, `enum` is what           *)
(* isinstance(value, DroneType) answers, `value` is the text.              *)
(* A path is a sequence of components; the first component "/" makes it    *)
(* absolute, "~" makes it user-relative.                                   *)
(***************************************************************************)
EXTENDS Integers, Sequences, FiniteSets, TLC

VARIABLES
    files,          \* the paths that exist on the filesystem right now
    registry,       \* <<>> before create/load, else <<[header, entries]>>
    disk,           \* <<>> or <<document>>: the JSON file at the destination
    filterAction,   \* warnings filter in force: "default" or "always"
    warnRegistry,   \* __warningregistry__ keys already shown: <<site, text>>
    last,           \* what the last operation returned, raised and emitted
    scan            \* main() of scan_wav_files.py: where it is and its locals

vars == <<files, registry, disk, filterAction, warnRegistry, last, scan>>

(***************************************************************************)
(* Bounds of the model.                                                    *)
(***************************************************************************)
MaxEntries == 2
MaxWarnKeys == 1
MaxDepth == 2

(***************************************************************************)
(* Text.                                                                   *)
(***************************************************************************)
UpperAlphabet ==
    <<"A","B","C","D","E","F","G","H","I","J","K","L","M",
      "N","O","P","Q","R","S","T","U","V","W","X","Y","Z">>
LowerAlphabet ==
    <<"a","b","c","d","e","f","g","h","i","j","k","l","m",
      "n","o","p","q","r","s","t","u","v","w","x","y","z">>

Whitespace == {" ", "\t", "\n", "\r", "\f"}

\* str.lower(), one character
LowerTable ==
    [c \in {UpperAlphabet[i] : i \in 1..26} |->
        LowerAlphabet[CHOOSE i \in 1..26 : UpperAlphabet[i] = c]]

LowerChar(c) == IF c \in DOMAIN LowerTable THEN LowerTable[c] ELSE c

\* str.lower()
Lower(s) == [i \in 1..Len(s) |-> LowerChar(s[i])]

RECURSIVE LStrip(_)
LStrip(s) ==
    IF s # <<>> /\ Head(s) \in Whitespace THEN LStrip(Tail(s)) ELSE s

RECURSIVE RStrip(_)
RStrip(s) ==
    IF s # <<>> /\ s[Len(s)] \in Whitespace
    THEN RStrip(SubSeq(s, 1, Len(s) - 1))
    ELSE s

\* a strip that forgets the trailing side
StripLeftOnly(s) == LStrip(s)

\* str.strip()
Strip(s) == RStrip(LStrip(s))

MEMBO_TEXT == <<"m","e","m","b","o">>
MAMBO_TEXT == <<"m","a","m","b","o">>
BEBOP_TEXT == <<"b","e","b","o","p">>

(***************************************************************************)
(* DroneType and the legacy alias table.                                   *)
(***************************************************************************)
BEBOP == [enum |-> TRUE, value |-> BEBOP_TEXT]
MAMBO == [enum |-> TRUE, value |-> MAMBO_TEXT]
DroneType == {BEBOP, MAMBO}

Str(s) == [enum |-> FALSE, value |-> s]

\* dict literal, in insertion order
LEGACY_DRONE_NAME_MAPPING ==
    << [key |-> MEMBO_TEXT, type |-> MAMBO],
       [key |-> MAMBO_TEXT, type |-> MAMBO],
       [key |-> BEBOP_TEXT, type |-> BEBOP] >>

MappingKeys(mapping) == [i \in 1..Len(mapping) |-> mapping[i].key]

InMapping(mapping, s) == \E i \in 1..Len(mapping) : mapping[i].key = s

MappingGet(mapping, s) ==
    mapping[CHOOSE i \in 1..Len(mapping) : mapping[i].key = s].type

\* DroneType(normalized_value): lookup of a member by its value
EnumLookup(s) == {d \in DroneType : d.value = s}

(***************************************************************************)
(* normalize_drone_type.  The outcome is                                   *)
(*   result : <<DroneType>> when it returns, <<>> when it raises           *)
(*   error  : <<[input, supported]>> when it raises ValueError             *)
(*   warned : the warnings.warn calls it made, in order                    *)
(***************************************************************************)
Returns(d, w) == [result |-> <<d>>, error |-> <<>>, warned |-> w]
Raises(e) == [result |-> <<>>, error |-> <<e>>, warned |-> <<>>]

Correction(value, corrected) ==
    [original |-> value.value, corrected |-> corrected.value]

\* the error names the cleaned-up label instead of the one given
UnknownDroneTypeCleaned(value) ==
    Raises([input |-> Strip(Lower(value.value)),
            supported |-> MappingKeys(LEGACY_DRONE_NAME_MAPPING)])

\* raise ValueError(f"Unknown drone type: '{value}'. Supported types: ...")
UnknownDroneType(value) ==
    Raises([input |-> value.value,
            supported |-> MappingKeys(LEGACY_DRONE_NAME_MAPPING)])

\* returns the cleaned-up label itself instead of the member it maps to
normalize_returns_label(value) ==
    IF value.enum
    THEN Returns(value, <<>>)
    ELSE LET normalized_value == Strip(Lower(value.value)) IN
         IF InMapping(LEGACY_DRONE_NAME_MAPPING, normalized_value)
         THEN IF normalized_value = MEMBO_TEXT
              THEN Returns(Str(normalized_value),
                           <<Correction(value, MAMBO)>>)
              ELSE Returns(Str(normalized_value), <<>>)
         ELSE UnknownDroneType(value)

normalize_drone_type(value) ==
    IF value.enum
    THEN Returns(value, <<>>)
    ELSE LET normalized_value == Strip(Lower(value.value)) IN
         IF InMapping(LEGACY_DRONE_NAME_MAPPING, normalized_value)
         THEN LET corrected_type ==
                      MappingGet(LEGACY_DRONE_NAME_MAPPING, normalized_value)
              IN  IF normalized_value = MEMBO_TEXT
                  THEN Returns(corrected_type,
                               <<Correction(value, corrected_type)>>)
                  ELSE Returns(corrected_type, <<>>)
         ELSE IF EnumLookup(normalized_value) # {}
              THEN Returns(CHOOSE d \in EnumLookup(normalized_value) : TRUE,
                           <<>>)
              ELSE UnknownDroneType(value)

(***************************************************************************)
(* warnings.warn(message, UserWarning, stacklevel=3).  The warning is      *)
(* looked up in the __warningregistry__ of the module two frames above     *)
(* normalize_drone_type under the key (text, category, lineno); `site`     *)
(* stands for that module and line, and the text carries the original      *)
(* value.  A key already in the registry is dropped; under the "default"   *)
(* action a shown warning is recorded there, under "always" it is not.     *)
(***************************************************************************)
WarnKey(site, diag) == <<site, diag.original>>

WarnShown(action, reg, site, diag) == WarnKey(site, diag) \notin reg

WarnRecord(action, reg, site, diag) ==
    IF WarnShown(action, reg, site, diag) /\ action = "default"
    THEN reg \cup {WarnKey(site, diag)}
    ELSE reg

\* the warnings of one operation, in order: what the caller gets to see
\* (stderr or the catch_warnings list) and the registry afterwards
RECURSIVE Emit(_, _, _, _)
Emit(action, reg, site, warned) ==
    IF warned = <<>>
    THEN [shown |-> <<>>, reg |-> reg]
    ELSE LET d == Head(warned)
             rest == Emit(action, WarnRecord(action, reg, site, d),
                          site, Tail(warned))
         IN  [shown |-> IF WarnShown(action, reg, site, d)
                        THEN <<d>> \o rest.shown
                        ELSE rest.shown,
              reg |-> rest.reg]

(***************************************************************************)
(* Inputs of normalize_drone_type: the two members, and raw labels in      *)
(* lower, upper and capitalised spelling, bare and with whitespace around. *)
(***************************************************************************)
UpperChar(c) ==
    IF \E i \in 1..26 : LowerAlphabet[i] = c
    THEN UpperAlphabet[CHOOSE i \in 1..26 : LowerAlphabet[i] = c]
    ELSE c

Upper(s) == [i \in 1..Len(s) |-> UpperChar(s[i])]

Capitalize(s) == [i \in 1..Len(s) |-> IF i = 1 THEN UpperChar(s[i]) ELSE s[i]]

BaseTexts ==
    { MEMBO_TEXT, MAMBO_TEXT, BEBOP_TEXT,
      <<>>,
      <<"d","r","o","n","e">>,
      <<"m","a","m"," ","b","o">>,
      <<"q","u","a","d","c","o","p","t","e","r","-","x">> }

Spellings(s) == {s, Upper(s), Capitalize(s)}

Padded(s) == {s, <<" ">> \o s, s \o <<"\t">>, <<" ">> \o s \o <<"\n">>}

RawTexts == UNION { UNION { Padded(c) : c \in Spellings(b) } : b \in BaseTexts }

NormInputs == DroneType \cup { Str(s) : s \in RawTexts }

(***************************************************************************)
(* Paths and the filesystem.  Symlinks and the directories are the fixed   *)
(* layout of the data tree; which recordings exist changes over time.      *)
(***************************************************************************)
Home == <<"/", "home", "u">>
Cwd == <<"/", "work">>

BEBOP_FILE == <<"/", "data", "bebop_1.wav">>
MEMBO_FILE == <<"/", "work", "rec", "membo_2.wav">>
LINK_FILE == <<"/", "data", "link.wav">>

Symlinks == (LINK_FILE :> BEBOP_FILE)

AllFiles == {BEBOP_FILE, MEMBO_FILE}

\* os.stat of each recording
FileStat ==
    (BEBOP_FILE :> [st_size |-> 1024000, st_mtime |-> 1700000001]) @@
    (MEMBO_FILE :> [st_size |-> 512, st_mtime |-> 1700000002])

\* Path.expanduser()
expanduser(path) ==
    IF path # <<>> /\ Head(path) = "~" THEN Home \o Tail(path) ELSE path

IsAbsolute(path) == path # <<>> /\ Head(path) = "/"

Parent(path) == IF Len(path) > 1 THEN SubSeq(path, 1, Len(path) - 1) ELSE path

\* os.path.realpath: components left to right, ".." pops, a symlink is
\* replaced by its (absolute) target
RECURSIVE realpath(_, _)
realpath(done, rest) ==
    IF rest = <<>> THEN done
    ELSE LET c == Head(rest) IN
         IF c = "." THEN realpath(done, Tail(rest))
         ELSE IF c = ".." THEN realpath(Parent(done), Tail(rest))
         ELSE IF (done \o <<c>>) \in DOMAIN Symlinks
              THEN realpath(<<"/">>, Tail(Symlinks[done \o <<c>>]) \o Tail(rest))
              ELSE realpath(done \o <<c>>, Tail(rest))

\* Path.resolve()
resolve(path) ==
    realpath(<<"/">>, Tail(IF IsAbsolute(path) THEN path ELSE Cwd \o path))

\* expands "~" and leaves the rest as given
canonicalize_no_resolve(path) == expanduser(path)

\* path.expanduser().resolve()
canonicalize(path) == resolve(expanduser(path))

\* Path.exists(), Path.stat(): they follow symlinks and do not expand "~"
exists(fs, path) == resolve(path) \in fs
stat(path) == FileStat[resolve(path)]

\* str(path) and Path(text), with the text cut at the separators
RECURSIVE JoinSep(_)
JoinSep(parts) ==
    IF Len(parts) <= 1 THEN parts
    ELSE <<Head(parts), "/">> \o JoinSep(Tail(parts))

RECURSIVE SplitSep(_)
SplitSep(text) ==
    IF text = <<>> THEN <<>>
    ELSE IF Head(text) \in {"/", "."} THEN SplitSep(Tail(text))
    ELSE <<Head(text)>> \o SplitSep(Tail(text))

PathStr(path) ==
    IF IsAbsolute(path) THEN <<"/">> \o JoinSep(Tail(path)) ELSE JoinSep(path)

PathParse(text) ==
    IF text # <<>> /\ Head(text) = "/"
    THEN <<"/">> \o SplitSep(Tail(text))
    ELSE SplitSep(text)

(***************************************************************************)
(* CleanWavEntry and RegistryHeader: the field validators.                 *)
(***************************************************************************)
SNR_DEFAULT == 20

\* validate_file_path / validate_root_dir: v is a str (text) or a Path
AsPath(v) == IF v.str THEN PathParse(v.text) ELSE v.path
validate_file_path(v) == canonicalize(AsPath(v))
validate_root_dir(v) == canonicalize(AsPath(v))

PathArg(path) == [str |-> FALSE, text |-> <<>>, path |-> path]
TextArg(text) == [str |-> TRUE, text |-> text, path |-> <<>>]

\* a validator that stores whatever it is given
validate_drone_type_passthrough(v) == Returns(v, <<>>)

validate_drone_type(v) == normalize_drone_type(v)

\* CleanWavEntry(file_path=..., drone_type=..., file_size=..., ...):
\* <<entry>> and the warnings, or the error of the drone_type validator
CleanWavEntry(file_path, drone_type, file_size, modified_time, snr_db) ==
    LET t == validate_drone_type(drone_type) IN
    IF t.error # <<>>
    THEN [entry |-> <<>>, error |-> t.error, warned |-> t.warned]
    ELSE [entry |-> << [file_path |-> validate_file_path(file_path),
                        drone_type |-> t.result[1],
                        file_size |-> file_size,
                        modified_time |-> modified_time,
                        snr_db |-> snr_db] >>,
          error |-> <<>>,
          warned |-> t.warned]

RegistryHeader(created_by, created_at, description, filter_terms, root_dir) ==
    [created_by |-> created_by,
     created_at |-> created_at,
     description |-> description,
     filter_terms |-> filter_terms,
     root_dir |-> validate_root_dir(root_dir)]

(***************************************************************************)
(* CleanWavRegistry.                                                       *)
(***************************************************************************)
\* counts = dict.fromkeys(DroneType, 0) instead of defaultdict(int)
EmptyCountsZeroFilled == [t \in DroneType |-> 0]

\* defaultdict(int)
EmptyCounts == [t \in {} |-> 0]

\* counts[entry.drone_type] += 1
Increment(counts, t) ==
    [k \in DOMAIN counts \cup {t} |->
        IF k = t
        THEN (IF t \in DOMAIN counts THEN counts[t] ELSE 0) + 1
        ELSE counts[k]]

RECURSIVE CountLoop(_, _)
CountLoop(entries, counts) ==
    IF entries = <<>> THEN counts
    ELSE CountLoop(Tail(entries), Increment(counts, Head(entries).drone_type))

count_by_drone_type(reg) == CountLoop(reg.entries, EmptyCounts)

\* CleanWavRegistry.create
create(created_by, filter_terms, root_dir, description, now) ==
    [header |-> RegistryHeader(created_by, now, description, filter_terms,
                               PathArg(root_dir)),
     entries |-> <<>>]

AddResult(reg, fs, status, error, warned) ==
    [registry |-> reg, files |-> fs, status |-> status, error |-> error,
     warned |-> warned]

\* raise FileNotFoundError(f"WAV file not found: {file_path}")
NotFound(file_path) == <<[input |-> file_path, supported |-> <<>>]>>

\* appends a placeholder first and reads the metadata afterwards
add_entry_append_first(reg, fs, file_path, drone_type, removed) ==
    LET n == normalize_drone_type(drone_type)
        fs2 == IF removed THEN fs \ {resolve(file_path)} ELSE fs
        placeholder == CleanWavEntry(PathArg(file_path), BEBOP, 0, 0, SNR_DEFAULT)
        grown == [reg EXCEPT !.entries = Append(@, placeholder.entry[1])]
    IN  IF ~exists(fs, file_path)
        THEN AddResult(reg, fs, "FileNotFoundError", NotFound(file_path), <<>>)
        ELSE IF n.error # <<>>
        THEN AddResult(reg, fs, "ValueError", n.error, n.warned)
        ELSE IF ~exists(fs2, file_path)
        THEN AddResult(grown, fs2, "FileNotFoundError", NotFound(file_path), n.warned)
        ELSE LET e == CleanWavEntry(PathArg(file_path), n.result[1],
                                    stat(file_path).st_size,
                                    stat(file_path).st_mtime, SNR_DEFAULT)
             IN  AddResult([reg EXCEPT !.entries = Append(@, e.entry[1])],
                           fs2, "ok", <<>>, n.warned \o e.warned)

\* hands the label as given, not the normalized one, to CleanWavEntry
add_entry_raw_label(reg, fs, file_path, drone_type, removed) ==
    LET n == normalize_drone_type(drone_type) IN
    IF ~exists(fs, file_path)
    THEN AddResult(reg, fs, "FileNotFoundError", NotFound(file_path), <<>>)
    ELSE IF n.error # <<>>
    THEN AddResult(reg, fs, "ValueError", n.error, n.warned)
    ELSE LET e == CleanWavEntry(PathArg(file_path), drone_type,
                                stat(file_path).st_size,
                                stat(file_path).st_mtime, SNR_DEFAULT)
         IN  AddResult([reg EXCEPT !.entries = Append(@, e.entry[1])],
                       fs, "ok", <<>>, n.warned \o e.warned)

\* skips a file whose canonical path the registry already holds
add_entry_dedup(reg, fs, file_path, drone_type, removed) ==
    LET n == normalize_drone_type(drone_type)
        held == { reg.entries[i].file_path : i \in 1..Len(reg.entries) }
    IN  IF ~exists(fs, file_path)
        THEN AddResult(reg, fs, "FileNotFoundError", NotFound(file_path), <<>>)
        ELSE IF n.error # <<>>
        THEN AddResult(reg, fs, "ValueError", n.error, n.warned)
        ELSE IF canonicalize(file_path) \in held
        THEN AddResult(reg, fs, "ok", <<>>, n.warned)
        ELSE LET e == CleanWavEntry(PathArg(file_path), n.result[1],
                                    stat(file_path).st_size,
                                    stat(file_path).st_mtime, SNR_DEFAULT)
             IN  AddResult([reg EXCEPT !.entries = Append(@, e.entry[1])],
                           fs, "ok", <<>>, n.warned \o e.warned)

\* CleanWavRegistry.add_entry.  `removed`: the file is deleted by someone
\* else after file_path.exists() and before file_path.stat().
add_entry(reg, fs, file_path, drone_type, removed) ==
    IF ~exists(fs, file_path)
    THEN AddResult(reg, fs, "FileNotFoundError", NotFound(file_path), <<>>)
    ELSE LET n == normalize_drone_type(drone_type) IN
         IF n.error # <<>>
         THEN AddResult(reg, fs, "ValueError", n.error, n.warned)
         ELSE LET fs2 == IF removed THEN fs \ {resolve(file_path)} ELSE fs IN
              IF ~exists(fs2, file_path)
              THEN AddResult(reg, fs2, "FileNotFoundError", NotFound(file_path),
                             n.warned)
              ELSE LET e == CleanWavEntry(PathArg(file_path), n.result[1],
                                          stat(file_path).st_size,
                                          stat(file_path).st_mtime,
                                          SNR_DEFAULT)
                   IN  AddResult([reg EXCEPT !.entries = Append(@, e.entry[1])],
                                 fs2, "ok", <<>>, n.warned \o e.warned)

\* what a warning of validate_all_entries says: the entry's index, the
\* issue, and the path and size of the entry it is about
Issue(i, issue, entry) ==
    [entry |-> i, issue |-> issue, path |-> entry.file_path,
     size |-> entry.file_size]

MIN_FILE_SIZE == 1024

\* flags a file of exactly 1KB as well
CheckEntryInclusive(i, entry, fs) ==
    (IF ~exists(fs, entry.file_path)
     THEN <<Issue(i, "File no longer exists", entry)>>
     ELSE <<>>)
    \o
    (IF entry.file_size <= MIN_FILE_SIZE
     THEN <<Issue(i, "Suspiciously small file size", entry)>>
     ELSE <<>>)

\* the body of the loop of validate_all_entries for entry number i
CheckEntry(i, entry, fs) ==
    (IF ~exists(fs, entry.file_path)
     THEN <<Issue(i, "File no longer exists", entry)>>
     ELSE <<>>)
    \o
    (IF entry.file_size < MIN_FILE_SIZE
     THEN <<Issue(i, "Suspiciously small file size", entry)>>
     ELSE <<>>)

RECURSIVE ValidateLoop(_, _, _)
ValidateLoop(entries, i, fs) ==
    IF entries = <<>> THEN <<>>
    ELSE CheckEntry(i, Head(entries), fs) \o ValidateLoop(Tail(entries), i + 1, fs)

\* CleanWavRegistry.validate_all_entries (enumerate counts from 0)
validate_all_entries(reg, fs) == ValidateLoop(reg.entries, 0, fs)

(***************************************************************************)
(* scan_wav_files.py.  The characters of every name the scanner meets, so  *)
(* that str(path), str.lower() and the substring tests are computed.       *)
(***************************************************************************)
NameChars ==
    ("/" :> <<"/">>) @@
    ("data" :> <<"d", "a", "t", "a">>) @@
    ("work" :> <<"w", "o", "r", "k">>) @@
    ("rec" :> <<"r", "e", "c">>) @@
    ("bebop_1.wav" :> <<"b", "e", "b", "o", "p", "_", "1", ".", "w", "a", "v">>) @@
    ("membo_2.wav" :> <<"m", "e", "m", "b", "o", "_", "2", ".", "w", "a", "v">>) @@
    ("link.wav" :> <<"l", "i", "n", "k", ".", "w", "a", "v">>) @@
    ("Bebop" :> <<"B", "e", "b", "o", "p">>) @@
    ("MEMBO" :> <<"M", "E", "M", "B", "O">>) @@
    ("Mambo" :> <<"M", "a", "m", "b", "o">>) @@
    ("mem" :> <<"m", "e", "m">>) @@
    ("bo" :> <<"b", "o">>) @@
    ("membebop" :> <<"m", "e", "m", "b", "e", "b", "o", "p">>) @@
    ("mambo_membo" :> <<"m", "a", "m", "b", "o", "_", "m", "e", "m", "b", "o">>) @@
    ("bebop" :> <<"b", "e", "b", "o", "p">>) @@
    ("membo" :> <<"m", "e", "m", "b", "o">>) @@
    ("WAV" :> <<"W", "A", "V">>)

RECURSIVE Concat(_)
Concat(texts) ==
    IF texts = <<>> THEN <<>> ELSE Head(texts) \o Concat(Tail(texts))

\* str(path), character by character
StrChars(path) ==
    LET tokens == PathStr(path) IN
    Concat([i \in 1..Len(tokens) |-> NameChars[tokens[i]]])

\* word in text
Contains(text, word) ==
    \E i \in 1..(Len(text) - Len(word) + 1) :
        SubSeq(text, i, i + Len(word) - 1) = word

\* looks for the mambo spellings before it looks for bebop
determine_mambo_first(file_path) ==
    LET file_str == Lower(StrChars(file_path)) IN
    IF Contains(file_str, MEMBO_TEXT) \/ Contains(file_str, MAMBO_TEXT)
    THEN normalize_drone_type(Str(IF Contains(file_str, MEMBO_TEXT)
                                  THEN MEMBO_TEXT ELSE MAMBO_TEXT))
    ELSE Returns(BEBOP, <<>>)

\* determine_drone_type(file_path)
determine_drone_type(file_path) ==
    LET file_str == Lower(StrChars(file_path)) IN
    IF Contains(file_str, BEBOP_TEXT)
    THEN Returns(BEBOP, <<>>)
    ELSE IF Contains(file_str, MEMBO_TEXT) \/ Contains(file_str, MAMBO_TEXT)
    THEN normalize_drone_type(Str(IF Contains(file_str, MEMBO_TEXT)
                                  THEN MEMBO_TEXT ELSE MAMBO_TEXT))
    ELSE Returns(BEBOP, <<>>)

\* the directories of the filesystem (only recordings are ever deleted)
Directories ==
    { <<"/">>, <<"/", "data">>, <<"/", "work">>, <<"/", "work", "rec">> }

\* what a directory listing shows: the files and the symlinks, broken or not
Listed(fs) == fs \cup DOMAIN Symlinks

Under(root_dir, path) ==
    Len(path) > Len(root_dir) /\ SubSeq(path, 1, Len(root_dir)) = root_dir

EndsWith(text, suffix) ==
    /\ Len(text) >= Len(suffix)
    /\ SubSeq(text, Len(text) - Len(suffix) + 1, Len(text)) = suffix

\* every order in which a directory walk can yield the members of S
Orders(S) ==
    { order \in [1..Cardinality(S) -> S] :
        \A i, j \in 1..Cardinality(S) : i # j => order[i] # order[j] }

\* root_dir.rglob("*" + suffix): the possible result lists
rglob(fs, root_dir, suffix) ==
    Orders({ path \in Listed(fs) :
               Under(root_dir, path) /\ EndsWith(NameChars[path[Len(path)]], suffix) })

\* find_wav_files(root_dir, filter_terms): the lists it can return
find_wav_files(fs, root_dir, filter_terms) ==
    LET wav_files ==
            { lower \o upper :
                lower \in rglob(fs, root_dir, <<".", "w", "a", "v">>),
                upper \in rglob(fs, root_dir, <<".", "W", "A", "V">>) }
        terms == [k \in 1..Len(filter_terms) |-> Lower(NameChars[filter_terms[k]])]
        Keep(f) == \E k \in 1..Len(terms) : Contains(Lower(StrChars(f)), terms[k])
    IN  IF filter_terms # <<>>
        THEN { SelectSeq(found, Keep) : found \in wav_files }
        ELSE wav_files

(***************************************************************************)
(* The JSON document.  created_at is [second, microsecond]; its ISO text   *)
(* has a fraction only when the microseconds are not zero.  `wellformed`   *)
(* is whether json.load can parse the text; `absent` names the keys a      *)
(* JSON object does not have.                                              *)
(***************************************************************************)
\* strftime without the fraction
IsoFormatNoFraction(dt) == <<dt.second>>

IsoFormat(dt) ==
    IF dt.microsecond = 0 THEN <<dt.second>> ELSE <<dt.second, ".", dt.microsecond>>

IsoParse(text) ==
    [second |-> text[1], microsecond |-> IF Len(text) = 3 THEN text[3] ELSE 0]

\* the enum is written as the text of another member
EnumTextSwapped(t) == IF t = MAMBO THEN MEMBO_TEXT ELSE t.value

\* model_dump(mode='json') of a DroneType: its value
EnumText(t) == t.value

DumpEntry(e) ==
    [absent |-> {},
     file_path |-> PathStr(e.file_path),
     drone_type |-> EnumText(e.drone_type),
     file_size |-> e.file_size,
     modified_time |-> e.modified_time,
     snr_db |-> e.snr_db]

\* self.model_dump(mode='json') with the paths as str: what save_to_file writes
model_dump(reg) ==
    [wellformed |-> TRUE,
     header |-> [absent |-> {},
                 created_by |-> reg.header.created_by,
                 created_at |-> IsoFormat(reg.header.created_at),
                 description |-> reg.header.description,
                 filter_terms |-> reg.header.filter_terms,
                 root_dir |-> PathStr(reg.header.root_dir)],
     entries |-> [i \in 1..Len(reg.entries) |-> DumpEntry(reg.entries[i])]]

\* fields declared Field(...) without a default
ENTRY_REQUIRED == {"file_path", "drone_type", "file_size", "modified_time"}
HEADER_REQUIRED == {"created_by", "filter_terms", "root_dir"}

\* pydantic's "Field required"
FieldRequired == [input |-> <<"Field required">>, supported |-> <<>>]

\* datetime.now()
Clock == { [second |-> 1700000100, microsecond |-> 250000] }

\* one entry of the document through CleanWavEntry; the validators of the
\* fields that are present run even when another field is missing
LoadEntry(d) ==
    IF d.absent \cap ENTRY_REQUIRED # {}
    THEN LET t == IF "drone_type" \in d.absent
                  THEN Returns(BEBOP, <<>>)
                  ELSE validate_drone_type(Str(d.drone_type))
         IN  [entry |-> <<>>, error |-> <<FieldRequired>> \o t.error,
              warned |-> t.warned]
    ELSE CleanWavEntry(TextArg(d.file_path), Str(d.drone_type), d.file_size,
                       d.modified_time,
                       IF "snr_db" \in d.absent THEN SNR_DEFAULT ELSE d.snr_db)

\* keeps the entries that parsed and drops the others
RECURSIVE LoadEntriesSkipBad(_)
LoadEntriesSkipBad(ds) ==
    IF ds = <<>>
    THEN [entries |-> <<>>, errors |-> <<>>, warned |-> <<>>]
    ELSE LET e == LoadEntry(Head(ds))
             rest == LoadEntriesSkipBad(Tail(ds))
         IN  [entries |-> e.entry \o rest.entries,
              errors |-> <<>>,
              warned |-> e.warned \o rest.warned]

RECURSIVE LoadEntries(_)
LoadEntries(ds) ==
    IF ds = <<>>
    THEN [entries |-> <<>>, errors |-> <<>>, warned |-> <<>>]
    ELSE LET e == LoadEntry(Head(ds))
             rest == LoadEntries(Tail(ds))
         IN  [entries |-> e.entry \o rest.entries,
              errors |-> e.error \o rest.errors,
              warned |-> e.warned \o rest.warned]

LoadHeader(h) ==
    IF h.absent \cap HEADER_REQUIRED # {}
    THEN [header |-> <<>>, error |-> <<FieldRequired>>]
    ELSE [header |->
              << RegistryHeader(
                     h.created_by,
                     IF "created_at" \in h.absent
                     THEN CHOOSE now \in Clock : TRUE
                     ELSE IsoParse(h.created_at),
                     IF "description" \in h.absent
                     THEN "Clean WAV file registry"
                     ELSE h.description,
                     h.filter_terms,
                     TextArg(h.root_dir)) >>,
          error |-> <<>>]

\* json.load + cls.model_validate(data): <<registry>> or the error
model_validate(doc) ==
    IF ~doc.wellformed
    THEN [registry |-> <<>>, status |-> "MalformedDocument", error |-> <<>>,
          warned |-> <<>>]
    ELSE LET hd == LoadHeader(doc.header)
             es == LoadEntries(doc.entries)
         IN  IF hd.error \o es.errors # <<>>
             THEN [registry |-> <<>>, status |-> "ValidationError",
                   error |-> hd.error \o es.errors, warned |-> es.warned]
             ELSE [registry |-> << [header |-> hd.header[1],
                                    entries |-> es.entries] >>,
                   status |-> "ok", error |-> <<>>, warned |-> es.warned]

(***************************************************************************)
(* Inputs of the registry operations.                                      *)
(***************************************************************************)
DRONE_TEXT == <<"d","r","o","n","e">>

\* (created_by, filter_terms, root_dir, description)
CreateArgs ==
    { <<"scan_wav_files.py", <<"bebop", "mambo">>, <<"data">>,
        "Clean WAV file registry">>,
      <<"example_usage.py", <<"clean", "drone">>, <<"~", "lake", "..", "audio">>,
        "Example registry">> }

CandidatePaths ==
    { BEBOP_FILE, LINK_FILE, <<"rec", "..", "rec", "membo_2.wav">> }

AddLabels == { Str(MEMBO_TEXT), Str(MAMBO_TEXT), BEBOP, Str(DRONE_TEXT) }

\* the calls add_entry(file_path, drone_type) that are made: a file under
\* its own name, through a symlink and by a relative path; a DroneType
\* member, the legacy label, a correct spelling and an unknown label
AddArgs ==
    { <<BEBOP_FILE, BEBOP>>,
      <<LINK_FILE, Str(MEMBO_TEXT)>>,
      <<LINK_FILE, Str(MAMBO_TEXT)>>,
      <<<<"rec", "..", "rec", "membo_2.wav">>, Str(MEMBO_TEXT)>>,
      <<BEBOP_FILE, Str(DRONE_TEXT)>> }

HandHeader ==
    [absent |-> {}, created_by |-> "by hand", created_at |-> <<1600000000>>,
     description |-> "Clean WAV file registry",
     filter_terms |-> <<"bebop", "membo">>,
     root_dir |-> <<"/", "data">>]

HandEntry(text, label, size) ==
    [absent |-> {}, file_path |-> text, drone_type |-> label, file_size |-> size,
     modified_time |-> 1600000001, snr_db |-> 15]

\* documents written or edited by hand before the program runs
HandDocs ==
    { [wellformed |-> TRUE, header |-> HandHeader,
       entries |-> << HandEntry(<<"/", "data", "/", "old_membo.wav">>,
                                MEMBO_TEXT, 1024),
                      [HandEntry(<<"rec", "/", "..", "/", "rec", "/",
                                   "membo_2.wav">>, BEBOP_TEXT, 1024)
                          EXCEPT !.absent = {"snr_db"}] >>],
      [wellformed |-> TRUE, header |-> HandHeader,
       entries |-> << HandEntry(<<"/", "data", "/", "link.wav">>,
                                <<"M","E","M","B","O">>, 2048),
                      HandEntry(<<"/", "data", "/", "x.wav">>,
                                DRONE_TEXT, 4096) >>],
      [wellformed |-> FALSE, header |-> HandHeader, entries |-> <<>>],
      [wellformed |-> TRUE,
       header |-> [HandHeader EXCEPT !.absent = {"created_by", "description"}],
       entries |-> << HandEntry(<<"/", "data", "/", "a.wav">>,
                                BEBOP_TEXT, 1024) >>],
      [wellformed |-> TRUE, header |-> HandHeader,
       entries |-> << HandEntry(<<"/", "data", "/", "a.wav">>,
                                MAMBO_TEXT, 1024),
                      [HandEntry(<<"/", "data", "/", "b.wav">>,
                                 BEBOP_TEXT, 0)
                          EXCEPT !.absent = {"file_size", "snr_db"}] >>] }

(***************************************************************************)
(* State.                                                                  *)
(***************************************************************************)
Outcome(op, arg, status, result, error, warned, shown) ==
    [op |-> op, arg |-> arg, status |-> status, result |-> result,
     error |-> error, warned |-> warned, shown |-> shown]

\* main() has not started
ScanIdle ==
    [pc |-> "idle", wav_files |-> <<>>, i |-> 1, processed_count |-> 0,
     error_count |-> 0, w |-> <<>>, attempts |-> <<>>]

Init ==
    /\ scan = ScanIdle
    /\ files = AllFiles
    /\ registry = <<>>
    /\ disk \in {<<>>} \cup { <<doc>> : doc \in HandDocs }
    /\ filterAction = "default"
    /\ warnRegistry = {}
    /\ last = Outcome("none", <<>>, "ok", <<>>, <<>>, <<>>, <<>>)

\* with warnings.catch_warnings(record=True): warnings.simplefilter("always")
\* (changing the filters invalidates every __warningregistry__)
CatchWarningsEnter ==
    /\ filterAction = "default"
    /\ filterAction' = "always"
    /\ warnRegistry' = {}
    /\ UNCHANGED <<scan, files, registry, disk, last>>

\* leaving the with block restores the filters
CatchWarningsExit ==
    /\ filterAction = "always"
    /\ filterAction' = "default"
    /\ warnRegistry' = {}
    /\ UNCHANGED <<scan, files, registry, disk, last>>

\* a direct call normalize_drone_type(value), as in test_setup.py
NormalizeCall(value) ==
    LET out == normalize_drone_type(value)
        em == Emit(filterAction, warnRegistry, "caller", out.warned)
    IN  /\ Cardinality(em.reg) <= MaxWarnKeys
        /\ warnRegistry' = em.reg
        /\ last' = Outcome("normalize", <<value>>,
                           IF out.error = <<>> THEN "ok" ELSE "ValueError",
                           out.result, out.error, out.warned, em.shown)
        /\ UNCHANGED <<scan, files, registry, disk, filterAction>>

\* normalize_drone_type applied to what the previous call returned
NormalizeAgain ==
    /\ last.op = "normalize"
    /\ last.result # <<>>
    /\ LET value == last.result[1]
           out == normalize_drone_type(value)
           em == Emit(filterAction, warnRegistry, "caller", out.warned)
       IN  /\ Cardinality(em.reg) <= MaxWarnKeys
           /\ warnRegistry' = em.reg
           /\ last' = Outcome("normalize_again", <<value, last.arg[1]>>,
                              IF out.error = <<>> THEN "ok" ELSE "ValueError",
                              out.result, out.error, out.warned, em.shown)
    /\ UNCHANGED <<scan, files, registry, disk, filterAction>>

\* registry = CleanWavRegistry.create(...)
Create(args, now) ==
    /\ registry = <<>>
    /\ registry' = <<create(args[1], args[2], args[3], args[4], now)>>
    /\ last' = Outcome("create", <<>>, "ok", <<>>, <<>>, <<>>, <<>>)
    /\ UNCHANGED <<scan, files, disk, filterAction, warnRegistry>>

\* registry.add_entry(file_path, drone_type)
AddEntry(file_path, drone_type, removed) ==
    /\ registry # <<>>
    /\ Len(registry[1].entries) < MaxEntries
    /\ LET out == add_entry(registry[1], files, file_path, drone_type, removed)
           em == Emit(filterAction, warnRegistry, "add_entry", out.warned)
       IN  /\ Cardinality(em.reg) <= MaxWarnKeys
           /\ registry' = <<out.registry>>
           /\ files' = out.files
           /\ warnRegistry' = em.reg
           /\ last' = Outcome("add_entry", <<file_path, drone_type>>,
                              out.status, <<>>, out.error, out.warned, em.shown)
    /\ UNCHANGED <<scan, disk, filterAction>>

\* registry.count_by_drone_type
CountByDroneType ==
    /\ registry # <<>>
    /\ last' = Outcome("count_by_drone_type", <<>>, "ok",
                       <<count_by_drone_type(registry[1])>>, <<>>, <<>>, <<>>)
    /\ UNCHANGED <<scan, files, registry, disk, filterAction, warnRegistry>>

\* registry.save_to_file(destination)
SaveToFile ==
    /\ registry # <<>>
    /\ disk' = <<model_dump(registry[1])>>
    /\ last' = Outcome("save", <<>>, "ok", <<>>, <<>>, <<>>, <<>>)
    /\ UNCHANGED <<scan, files, registry, filterAction, warnRegistry>>

\* registry = CleanWavRegistry.load_from_file(destination)
LoadFromFile ==
    /\ disk # <<>>
    /\ LET out == model_validate(disk[1])
           em == Emit(filterAction, warnRegistry, "load", out.warned)
       IN  /\ Cardinality(em.reg) <= MaxWarnKeys
           /\ registry' = IF out.status = "ok" THEN out.registry ELSE registry
           /\ warnRegistry' = em.reg
           /\ last' = Outcome("load", <<>>, out.status, out.registry,
                              out.error, out.warned, em.shown)
    /\ UNCHANGED <<scan, files, disk, filterAction>>

\* reports the issues and drops the entries it flagged
ValidateAllEntriesPruning ==
    /\ registry # <<>>
    /\ LET Sound(entry) == CheckEntry(0, entry, files) = <<>> IN
       registry' = <<[registry[1] EXCEPT !.entries = SelectSeq(@, Sound)]>>
    /\ last' = Outcome("validate_all_entries", <<files>>, "ok",
                       <<validate_all_entries(registry[1], files)>>,
                       <<>>, <<>>, <<>>)
    /\ UNCHANGED <<scan, files, disk, filterAction, warnRegistry>>

\* registry.validate_all_entries()
ValidateAllEntries ==
    /\ registry # <<>>
    /\ last' = Outcome("validate_all_entries", <<files>>, "ok",
                       <<validate_all_entries(registry[1], files)>>,
                       <<>>, <<>>, <<>>)
    /\ UNCHANGED <<scan, files, registry, disk, filterAction, warnRegistry>>

\* someone deletes a recording
RemoveFile(f) ==
    /\ f \in files
    /\ files' = files \ {f}
    /\ UNCHANGED <<scan, registry, disk, filterAction, warnRegistry, last>>

\* the names the paths given to determine_drone_type are made of: each
\* spelling alone and in another case, two spellings in one name, "bebop"
\* overlapping the start of "membo", and "membo" cut by a separator
DetectNames ==
    { "Bebop", "MEMBO", "Mambo", "mem", "bo", "membebop", "mambo_membo" }

DetectPaths == UNION { [1..n -> DetectNames] : n \in 1..MaxDepth }

\* a direct call determine_drone_type(file_path)
DetermineCall(file_path) ==
    LET out == determine_drone_type(file_path)
        em == Emit(filterAction, warnRegistry, "caller", out.warned)
    IN  /\ Cardinality(em.reg) <= MaxWarnKeys
        /\ warnRegistry' = em.reg
        /\ last' = Outcome("determine_drone_type", <<file_path>>,
                           IF out.error = <<>> THEN "ok" ELSE "ValueError",
                           out.result, out.error, out.warned, em.shown)
        /\ UNCHANGED <<scan, files, registry, disk, filterAction>>

\* the configurations main() is run with: root_dir and filter_terms
ScanRuns ==
    { [root_dir |-> <<"/">>, filter_terms |-> <<"bebop", "membo">>],
      [root_dir |-> <<"/">>, filter_terms |-> <<"WAV">>] }

\* main(), lines 160-205: the root exists, the files are found, the
\* registry is created and the warnings are captured; with no file found
\* main returns before it creates anything
ScanStart(run, wav_files, now) ==
    /\ scan.pc = "idle"
    /\ registry = <<>>
    /\ run.root_dir \in Directories
    /\ wav_files \in find_wav_files(files, run.root_dir, run.filter_terms)
    /\ IF wav_files = <<>>
       THEN /\ scan' = [scan EXCEPT !.pc = "done"]
            /\ UNCHANGED <<registry, filterAction, warnRegistry>>
       ELSE /\ scan' = [scan EXCEPT !.pc = "loop", !.wav_files = wav_files]
            /\ registry' = <<create("scan_wav_files.py", run.filter_terms,
                                    run.root_dir,
                                    "Registry of clean WAV files for drone detection",
                                    now)>>
            /\ filterAction' = "always"
            /\ warnRegistry' = {}
    /\ last' = Outcome("find_wav_files", <<>>, "ok", <<wav_files>>,
                       <<>>, <<>>, <<>>)
    /\ UNCHANGED <<files, disk>>

\* one pass of the loop that stops at the first file it cannot add
ScanStepAbort(removed) ==
    /\ scan.pc = "loop"
    /\ scan.i <= Len(scan.wav_files)
    /\ LET file_path == scan.wav_files[scan.i]
           d == determine_drone_type(file_path)
           out == add_entry(registry[1], files, file_path, d.result[1], removed)
       IN  /\ registry' = <<out.registry>>
           /\ files' = out.files
           /\ scan' = [scan EXCEPT
                         !.pc = IF out.status = "ok" THEN "loop" ELSE "done",
                         !.i = @ + 1,
                         !.processed_count = IF out.status = "ok" THEN @ + 1 ELSE @,
                         !.error_count = IF out.status = "ok" THEN @ ELSE @ + 1,
                         !.w = @ \o d.warned \o out.warned,
                         !.attempts = Append(@, [file_path |-> file_path,
                                                 status |-> out.status])]
           /\ last' = Outcome("scan_file", <<file_path, d.result[1]>>, out.status,
                              <<>>, out.error, d.warned \o out.warned,
                              d.warned \o out.warned)
    /\ UNCHANGED <<disk, filterAction, warnRegistry>>

\* main(), lines 207-214: one pass of the loop.  `attempts` keeps, for
\* every pass, the file it was given and how the try block ended.
ScanStep(removed) ==
    /\ scan.pc = "loop"
    /\ scan.i <= Len(scan.wav_files)
    /\ LET file_path == scan.wav_files[scan.i]
           d == determine_drone_type(file_path)
           em1 == Emit(filterAction, warnRegistry, "main", d.warned)
           out == add_entry(registry[1], files, file_path, d.result[1], removed)
           em2 == Emit(filterAction, em1.reg, "add_entry", out.warned)
       IN  /\ registry' = <<out.registry>>
           /\ files' = out.files
           /\ warnRegistry' = em2.reg
           /\ scan' = [scan EXCEPT
                         !.i = @ + 1,
                         !.processed_count = IF out.status = "ok" THEN @ + 1 ELSE @,
                         !.error_count = IF out.status = "ok" THEN @ ELSE @ + 1,
                         !.w = @ \o em1.shown \o em2.shown,
                         !.attempts = Append(@, [file_path |-> file_path,
                                                 status |-> out.status])]
           /\ last' = Outcome("scan_file", <<file_path, d.result[1]>>, out.status,
                              <<>>, out.error, d.warned \o out.warned,
                              em1.shown \o em2.shown)
    /\ UNCHANGED <<disk, filterAction>>

\* main(), lines 216-237: the loop is over; the warnings filter is
\* restored, the counts are printed and the registry is saved
ScanEnd ==
    /\ scan.pc = "loop"
    /\ scan.i > Len(scan.wav_files)
    /\ scan' = [scan EXCEPT !.pc = "done"]
    /\ filterAction' = "default"
    /\ warnRegistry' = {}
    /\ disk' = <<model_dump(registry[1])>>
    /\ last' = Outcome("main", <<>>, "ok",
                       <<[processed_count |-> scan.processed_count,
                          error_count |-> scan.error_count,
                          corrections |-> Len(scan.w)]>>,
                       <<>>, <<>>, <<>>)
    /\ UNCHANGED <<files, registry>>

Next ==
    \/ \E args \in CreateArgs, now \in Clock : Create(args, now)
    \/ \E args \in AddArgs, removed \in BOOLEAN :
           AddEntry(args[1], args[2], removed)
    \/ CountByDroneType
    \/ SaveToFile
    \/ LoadFromFile
    \/ ValidateAllEntries
    \/ \E f \in AllFiles : RemoveFile(f)

Spec == Init /\ [][Next]_vars

NextNorm ==
    \/ \E value \in NormInputs : NormalizeCall(value)
    \/ NormalizeAgain
    \/ CatchWarningsEnter
    \/ CatchWarningsExit

SpecNorm == Init /\ [][NextNorm]_vars

\* one run of scan_wav_files.py while recordings are being deleted
InitScan == Init /\ disk = <<>>

NextScan ==
    \/ \E run \in ScanRuns, now \in Clock :
          \E wav_files \in find_wav_files(files, run.root_dir, run.filter_terms) :
              ScanStart(run, wav_files, now)
    \/ \E removed \in BOOLEAN : ScanStep(removed)
    \/ ScanEnd
    \/ \E f \in AllFiles : RemoveFile(f)

SpecScan == InitScan /\ [][NextScan]_vars

\* calls of determine_drone_type, one after another
NextDetect == \E file_path \in DetectPaths : DetermineCall(file_path)

SpecDetect == InitScan /\ [][NextDetect]_vars

(***************************************************************************)
(* What "the lower-cased, trimmed form of text is word" means, said        *)
(* without lower() and strip(): whitespace, then the letters of word in    *)
(* either case, then whitespace.                                           *)
(***************************************************************************)
Spells(text, word) ==
    \E i \in 1..(Len(text) + 1) :
        LET j == i + Len(word) - 1 IN
        /\ j <= Len(text)
        /\ \A k \in 1..(i - 1) : text[k] \in Whitespace
        /\ \A k \in (j + 1)..Len(text) : text[k] \in Whitespace
        /\ \A k \in 1..Len(word) :
               text[i + k - 1] \in {word[k], UpperChar(word[k])}

Recognized(text) ==
    Spells(text, MEMBO_TEXT) \/ Spells(text, MAMBO_TEXT) \/ Spells(text, BEBOP_TEXT)

IsNormalizeOf(v) == last.op = "normalize" /\ last.arg = <<v>>

\* C5: normalize maps a raw label by its lower-cased, trimmed form: "membo"
\* and "mambo" give Mambo, "bebop" gives Bebop, in any letter case; it issues
\* a correction diagnostic (original and corrected value) exactly when that
\* form is "membo", and none for a DroneType member, "mambo" or "bebop".
C5_NormalizeMapping ==
    \A v \in NormInputs :
        IsNormalizeOf(v) =>
            /\ (~v.enum /\ Spells(v.value, MEMBO_TEXT)) =>
                   /\ last.result = <<MAMBO>>
                   /\ last.warned = <<[original |-> v.value,
                                       corrected |-> MAMBO_TEXT]>>
            /\ (~v.enum /\ Spells(v.value, MAMBO_TEXT)) =>
                   last.result = <<MAMBO>> /\ last.warned = <<>>
            /\ (~v.enum /\ Spells(v.value, BEBOP_TEXT)) =>
                   last.result = <<BEBOP>> /\ last.warned = <<>>
            /\ v.enum => last.warned = <<>>
            /\ (last.warned # <<>>) <=> (~v.enum /\ Spells(v.value, MEMBO_TEXT))

C5_Witness ==
    /\ IsNormalizeOf(Str(<<" ","M","E","M","B","O","\n">>))
    /\ last.result = <<MAMBO>>
    /\ Len(last.warned) = 1

\* C6: for every input normalize accepts, applying normalize to its result
\* returns that result unchanged and issues no correction diagnostic.
C6_NormalizeIdempotent ==
    /\ (last.op = "normalize" /\ last.status = "ok") =>
           /\ last.result[1] \in DroneType
           /\ normalize_drone_type(last.result[1]).result = last.result
    /\ last.op = "normalize_again" =>
           /\ last.status = "ok"
           /\ last.result = <<last.arg[1]>>
           /\ last.warned = <<>>
           /\ last.shown = <<>>

C6_Witness ==
    /\ last.op = "normalize_again"
    /\ last.arg = <<MAMBO, Str(<<"M","e","m","b","o">>)>>
    /\ last.result = <<MAMBO>>

\* C7: a raw label whose lower-cased, trimmed form is no alias and no
\* canonical spelling makes normalize raise the unknown-type error, which
\* carries the label as given and the aliases membo, mambo, bebop.
C7_UnknownLabelFails ==
    \A v \in NormInputs :
        (IsNormalizeOf(v) /\ ~v.enum /\ ~Recognized(v.value)) =>
            /\ last.status = "ValueError"
            /\ last.result = <<>>
            /\ last.error = <<[input |-> v.value,
                               supported |-> <<MEMBO_TEXT, MAMBO_TEXT, BEBOP_TEXT>>]>>

C7_Witness ==
    /\ IsNormalizeOf(Str(<<" ","D","R","O","N","E">>))
    /\ last.status = "ValueError"

\* C8: every normalize call whose input is the legacy alias, however many
\* such calls came before it, delivers a correction diagnostic stating the
\* original and the corrected value to its caller.
C8_DiagnosticAlwaysDelivered ==
    \A v \in NormInputs :
        (IsNormalizeOf(v) /\ ~v.enum /\ Spells(v.value, MEMBO_TEXT)) =>
            last.shown = <<[original |-> v.value, corrected |-> MAMBO_TEXT]>>

\* C9: a normalize call leaves all process-wide state unchanged, the
\* warning record included, and what it hands its caller depends only on
\* its argument, not on earlier calls.
C9_NormalizePure ==
    [][\A v \in NormInputs :
           NormalizeCall(v) =>
               /\ warnRegistry' = warnRegistry
               /\ last'.shown = normalize_drone_type(v).warned]_vars

(***************************************************************************)
(* Claims about the registry.                                              *)
(***************************************************************************)
Entries == registry[1].entries
Header == registry[1].header

\* C1: in every state reachable by create, add_entry, load and save, every
\* entry of the Registry has device type Bebop or Mambo; the legacy token
\* "membo", in any letter case or with whitespace around, is never stored.
C1_EntriesHoldCanonicalType ==
    registry # <<>> =>
        \A i \in 1..Len(Entries) :
            /\ Entries[i].drone_type \in DroneType
            /\ Entries[i].drone_type.enum
            /\ ~Spells(Entries[i].drone_type.value, MEMBO_TEXT)

C1_Witness ==
    /\ last.op = "add_entry"
    /\ last.status = "ok"
    /\ last.arg[2] = Str(MEMBO_TEXT)
    /\ Entries[Len(Entries)].drone_type = MAMBO

\* C2: add_entry is all-or-nothing: a call whose path does not exist fails
\* with FileNotFoundError, and every failing call (missing path, file removed
\* between the existence check and the metadata read, unrecognized label)
\* leaves the entries and the header exactly as they were.
C2_AddEntryAllOrNothing ==
    [][\A file_path \in CandidatePaths, drone_type \in AddLabels,
          removed \in BOOLEAN :
           (/\ last'.op = "add_entry"
            /\ last'.arg = <<file_path, drone_type>>
            /\ AddEntry(file_path, drone_type, removed)) =>
               /\ ~exists(files, file_path) =>
                      last'.status = "FileNotFoundError"
               /\ last'.status # "ok" => registry' = registry]_vars

C2_Witness ==
    /\ last.op = "add_entry"
    /\ last.status = "FileNotFoundError"
    /\ last.arg = <<LINK_FILE, Str(MEMBO_TEXT)>>
    /\ last.warned # <<>>
    /\ BEBOP_FILE \notin files
    /\ Len(Entries) = 1

\* C3: saving a Registry and loading the written document gives a Registry
\* with the same header fields (created_by, created_at, description,
\* filter_terms, root_dir) and the same entries (path, device type, size,
\* modified time, snr_db), as many and in the same order.
SameAfterRoundTrip(reg, doc) ==
    LET back == model_validate(doc) IN
    /\ back.status = "ok"
    /\ LET r == back.registry[1] IN
       /\ r.header.created_by = reg.header.created_by
       /\ r.header.created_at = reg.header.created_at
       /\ r.header.description = reg.header.description
       /\ r.header.filter_terms = reg.header.filter_terms
       /\ r.header.root_dir = reg.header.root_dir
       /\ Len(r.entries) = Len(reg.entries)
       /\ \A i \in 1..Len(reg.entries) :
              /\ r.entries[i].file_path = reg.entries[i].file_path
              /\ r.entries[i].drone_type = reg.entries[i].drone_type
              /\ r.entries[i].file_size = reg.entries[i].file_size
              /\ r.entries[i].modified_time = reg.entries[i].modified_time
              /\ r.entries[i].snr_db = reg.entries[i].snr_db

C3_SaveLoadRoundTrip ==
    /\ registry # <<>> => SameAfterRoundTrip(registry[1], model_dump(registry[1]))
    /\ last.op = "save" => disk # <<>> /\ SameAfterRoundTrip(registry[1], disk[1])

C3_Witness ==
    /\ last.op = "save"
    /\ Len(Entries) = 2
    /\ Entries[1].drone_type = MAMBO
    /\ Entries[2].drone_type = BEBOP
    /\ Entries[1].file_path # Entries[2].file_path
    /\ Header.created_at.microsecond # 0
    /\ Header.root_dir = Home \o <<"audio">>

\* C4: count_by_drone_type returns a mapping whose values sum to the number
\* of entries, whose value for each present key is the number of entries of
\* that type and at least 1 (absent types are no keys), and which is empty
\* for a Registry without entries.
RECURSIVE SumOver(_, _)
SumOver(f, keys) ==
    IF keys = {} THEN 0
    ELSE LET k == CHOOSE x \in keys : TRUE IN f[k] + SumOver(f, keys \ {k})

C4_CountByDroneType ==
    /\ registry # <<>> =>
           LET counts == count_by_drone_type(registry[1]) IN
           /\ DOMAIN counts \subseteq DroneType
           /\ SumOver(counts, DOMAIN counts) = Len(Entries)
           /\ \A t \in DOMAIN counts :
                  /\ counts[t] >= 1
                  /\ counts[t] =
                         Cardinality({i \in 1..Len(Entries) :
                                          Entries[i].drone_type = t})
           /\ Entries = <<>> => DOMAIN counts = {}
    /\ last.op = "count_by_drone_type" =>
           last.result = <<count_by_drone_type(registry[1])>>

C4_Witness ==
    /\ last.op = "count_by_drone_type"
    /\ DOMAIN last.result[1] = {MAMBO}
    /\ last.result[1][MAMBO] = 2

\* what makes a document unfit: not JSON, a required key missing from the
\* header or from an entry, or an entry whose label is not recognized
Flawed(doc) ==
    \/ ~doc.wellformed
    \/ doc.header.absent \cap {"created_by", "filter_terms", "root_dir"} # {}
    \/ \E i \in 1..Len(doc.entries) :
           \/ doc.entries[i].absent \cap
                  {"file_path", "drone_type", "file_size", "modified_time"} # {}
           \/ ~Recognized(doc.entries[i].drone_type)

\* C10: loading a document in which some entry has drone_type "membo" (and
\* which is otherwise loadable: valid JSON, no required key missing, every
\* label recognized)
\* succeeds, each such entry is loaded as Mambo with a correction diagnostic
\* issued for it, and a document written by save holds only "bebop" or
\* "mambo" as drone_type.
HasLegacyLabel(doc) ==
    \E i \in 1..Len(doc.entries) : Spells(doc.entries[i].drone_type, MEMBO_TEXT)

Loadable(doc) == ~Flawed(doc)

C10_LegacyDocumentLoads ==
    /\ (last.op = "load" /\ HasLegacyLabel(disk[1]) /\ Loadable(disk[1])) =>
           /\ last.status = "ok"
           /\ Len(Entries) = Len(disk[1].entries)
           /\ \A i \in 1..Len(disk[1].entries) :
                  Spells(disk[1].entries[i].drone_type, MEMBO_TEXT) =>
                      /\ Entries[i].drone_type = MAMBO
                      /\ \E j \in 1..Len(last.warned) :
                             last.warned[j] =
                                 [original |-> disk[1].entries[i].drone_type,
                                  corrected |-> MAMBO_TEXT]
    /\ last.op = "save" =>
           \A i \in 1..Len(disk[1].entries) :
               disk[1].entries[i].drone_type \in {BEBOP_TEXT, MAMBO_TEXT}

C10_Witness ==
    /\ last.op = "save"
    /\ disk[1].header.created_by = "by hand"
    /\ disk[1].entries[1].file_path = <<"/", "data", "/", "old_membo.wav">>
    /\ disk[1].entries[1].drone_type = MAMBO_TEXT

\* C11: load returns a complete Registry, one entry per document entry in
\* document order, or fails and returns no Registry: a source that is not
\* valid JSON, lacks a required header or entry field, or has an entry with
\* an unrecognized drone_type fails as a whole, never yielding a Registry
\* of only the entries that parsed.
C11_LoadAllOrNothing ==
    last.op = "load" =>
        /\ Flawed(disk[1]) => last.status # "ok"
        /\ last.status # "ok" => last.result = <<>>
        /\ last.status = "ok" =>
               /\ last.result = registry
               /\ Len(Entries) = Len(disk[1].entries)
               /\ \A i \in 1..Len(Entries) :
                      /\ Entries[i].file_path =
                             canonicalize(PathParse(disk[1].entries[i].file_path))
                      /\ Spells(disk[1].entries[i].drone_type,
                                Entries[i].drone_type.value)
                         \/ (/\ Spells(disk[1].entries[i].drone_type, MEMBO_TEXT)
                             /\ Entries[i].drone_type = MAMBO)
                      /\ Entries[i].file_size = disk[1].entries[i].file_size
                      /\ Entries[i].modified_time =
                             disk[1].entries[i].modified_time

C11_Witness ==
    /\ last.op = "load"
    /\ last.status = "ValidationError"
    /\ Len(disk[1].entries) = 2
    /\ Recognized(disk[1].entries[1].drone_type)
    /\ ~Recognized(disk[1].entries[2].drone_type)
    /\ last.result = <<>>
    /\ registry # <<>>
    /\ Len(Entries) = 1

\* C12 as claimed: validate_all_entries on a Registry whose only entry has
\* size 512 returns exactly one diagnostic, naming the entry as suspiciously
\* small.
IsValidate == last.op = "validate_all_entries"

SmallIssue(i) ==
    [entry |-> i - 1, issue |-> "Suspiciously small file size",
     path |-> Entries[i].file_path, size |-> Entries[i].file_size]

MissingIssue(i) ==
    [entry |-> i - 1, issue |-> "File no longer exists",
     path |-> Entries[i].file_path, size |-> Entries[i].file_size]

C12_OneSmallEntryOneDiagnostic ==
    (IsValidate /\ Len(Entries) = 1 /\ Entries[1].file_size = 512) =>
        last.result[1] = <<SmallIssue(1)>>

\* C12, amended: validate_all_entries on a Registry whose only entry has size
\* 512 returns exactly one diagnostic (suspiciously small) when the entry's
\* file still exists, and two (no longer exists, then suspiciously small)
\* when it does not.  In general it returns the empty sequence when no entry
\* has a missing file or a size below 1024, flags every entry with size
\* < 1024 and no entry with size >= 1024, and flags exactly the entries whose
\* file is missing as no longer existing.
C12_ValidateAllEntries ==
    IsValidate =>
        LET found == last.result[1]
            fs == last.arg[1]
            Has(d) == \E k \in 1..Len(found) : found[k] = d
            Here(i) == resolve(Entries[i].file_path) \in fs
        IN  /\ (Len(Entries) = 1 /\ Entries[1].file_size = 512 /\ Here(1)) =>
                   found = <<SmallIssue(1)>>
            /\ (Len(Entries) = 1 /\ Entries[1].file_size = 512 /\ ~Here(1)) =>
                   found = <<MissingIssue(1), SmallIssue(1)>>
            /\ (\A i \in 1..Len(Entries) :
                    Here(i) /\ Entries[i].file_size >= 1024) => found = <<>>
            /\ \A i \in 1..Len(Entries) :
                   /\ Has(SmallIssue(i)) <=> Entries[i].file_size < 1024
                   /\ Has(MissingIssue(i)) <=> ~Here(i)
            /\ \A k \in 1..Len(found) :
                   \E i \in 1..Len(Entries) :
                       found[k] \in {SmallIssue(i), MissingIssue(i)}

C12_Witness ==
    /\ IsValidate
    /\ Len(Entries) = 2
    /\ Entries[1].file_size = 512
    /\ Entries[2].file_size = 1024000
    /\ last.arg[1] = AllFiles
    /\ last.result[1] = <<SmallIssue(1)>>

\* C13: every stored path (the header's root_dir and every entry's path) is
\* absolute and canonical, a fixed point of canonicalize with no ".."
\* component and no symlink in it, whether it was given as a relative, a
\* user-relative or an absolute path and whether or not it exists; this
\* still holds for the Registry read back after a save.
IsCanonicalPath(path) ==
    /\ IsAbsolute(path)
    /\ canonicalize(path) = path
    /\ \A i \in 1..Len(path) :
           /\ path[i] \notin {".", ".."}
           /\ SubSeq(path, 1, i) \notin DOMAIN Symlinks

AllPathsCanonical(reg) ==
    /\ IsCanonicalPath(reg.header.root_dir)
    /\ \A i \in 1..Len(reg.entries) : IsCanonicalPath(reg.entries[i].file_path)

C13_StoredPathsCanonical ==
    registry # <<>> =>
        /\ AllPathsCanonical(registry[1])
        /\ LET back == model_validate(model_dump(registry[1])) IN
           back.status = "ok" /\ AllPathsCanonical(back.registry[1])

C13_Witness ==
    /\ last.op = "load"
    /\ last.status = "ok"
    /\ Header.created_by = "example_usage.py"
    /\ Header.root_dir = <<"/", "home", "u", "audio">>
    /\ Len(Entries) = 2
    /\ Entries[1].file_path = <<"/", "work", "rec", "membo_2.wav">>
    /\ Entries[2].file_path = <<"/", "data", "bebop_1.wav">>
    /\ BEBOP_FILE \notin files

\* C14: a successful add_entry appends exactly one entry at the end and
\* changes nothing else: the header stays, the old entries are a prefix of
\* the new sequence, and the length grows by 1 even when an entry with the
\* same canonical path is already held.
C14_AddEntryAppendsOne ==
    [][\A file_path \in CandidatePaths, drone_type \in AddLabels, removed \in BOOLEAN :
           (/\ last'.op = "add_entry"
            /\ last'.arg = <<file_path, drone_type>>
            /\ last'.status = "ok"
            /\ AddEntry(file_path, drone_type, removed)) =>
               LET old == registry[1]
                   new == registry'[1]
                   n == Len(old.entries)
               IN  /\ new.header = old.header
                   /\ Len(new.entries) = n + 1
                   /\ SubSeq(new.entries, 1, n) = old.entries
                   /\ new.entries[n + 1].file_path = canonicalize(file_path)
                   /\ new.entries[n + 1].file_size = stat(file_path).st_size
                   /\ files' = files
                   /\ disk' = disk]_vars

C14_Witness ==
    /\ last.op = "add_entry"
    /\ last.status = "ok"
    /\ last.arg[1] = LINK_FILE
    /\ Len(Entries) = 2
    /\ Entries[1].file_path = BEBOP_FILE
    /\ Entries[2].file_path = BEBOP_FILE

\* C15: count_by_drone_type, validate_all_entries and save leave the
\* in-memory Registry as it was (header and entries, flagged entries
\* included); save writes what the Registry holds, and after a save an
\* add_entry of an existing file still succeeds and the next save would
\* write the sequence enlarged by that entry.
ReadOnlyStep ==
    LET counted == last'.op = "count_by_drone_type" /\ CountByDroneType
        validated == last'.op = "validate_all_entries" /\ ValidateAllEntries
        saved == last'.op = "save" /\ SaveToFile
    IN  (counted \/ validated \/ saved) =>
            /\ registry' = registry
            /\ files' = files
            /\ saved => disk' = <<model_dump(registry[1])>>
            /\ ~saved => disk' = disk

StillOpenAfterSave ==
    last.op = "save" =>
        \A file_path \in CandidatePaths, drone_type \in AddLabels :
            (exists(files, file_path) /\ normalize_drone_type(drone_type).error = <<>>) =>
                LET out == add_entry(registry[1], files, file_path, drone_type, FALSE)
                    n == Len(registry[1].entries)
                    doc == model_dump(out.registry)
                IN  /\ out.status = "ok"
                    /\ Len(doc.entries) = Len(disk[1].entries) + 1
                    /\ SubSeq(doc.entries, 1, n) = disk[1].entries
                    /\ doc.entries[n + 1] = DumpEntry(out.registry.entries[n + 1])
                    /\ doc.header = disk[1].header

C15_ReadOnlyOperations == [][ReadOnlyStep]_vars /\ []StillOpenAfterSave

C15_Witness ==
    /\ last.op = "validate_all_entries"
    /\ Len(last.result[1]) >= 2
    /\ Len(Entries) = 2
    /\ disk # <<>>
    /\ disk[1].wellformed
    /\ disk[1].header.created_by = "example_usage.py"
    /\ Len(disk[1].entries) = 1

\* C16: a successful add_entry given the legacy label produces exactly one
\* correction diagnostic (warnings.warn is called once, by the
\* normalization in add_entry; the Entry validator is handed a DroneType
\* member and returns it silently); given a DroneType member or a correct
\* spelling it produces none.
C16_AddEntryWarnsOnce ==
    (last.op = "add_entry" /\ last.status = "ok") =>
        LET label == last.arg[2] IN
        IF ~label.enum /\ Spells(label.value, MEMBO_TEXT)
        THEN last.warned = <<[original |-> label.value, corrected |-> MAMBO_TEXT]>>
        ELSE last.warned = <<>>

C16_Witness ==
    /\ last.op = "add_entry"
    /\ last.status = "ok"
    /\ last.arg[2] = Str(MEMBO_TEXT)
    /\ Len(last.warned) = 1
    /\ Entries[Len(Entries)].drone_type = MAMBO

\* C17: in the scan loop a file that cannot be added does not stop the
\* scan: the passes made so far are the candidates in order, one pass each;
\* processed_count + error_count is the number of passes, processed_count
\* is the number of entries, and the entries are the successfully added
\* candidates in order; when main is done every candidate has had its pass.
C17_ScanLoopCounts ==
    scan.pc # "idle" /\ scan.wav_files # <<>> =>
        LET n == Len(scan.attempts)
            Added(a) == a.status = "ok"
            added == SelectSeq(scan.attempts, Added)
        IN  /\ n <= Len(scan.wav_files)
            /\ \A k \in 1..n : scan.attempts[k].file_path = scan.wav_files[k]
            /\ scan.processed_count + scan.error_count = n
            /\ scan.processed_count = Len(Entries)
            /\ Len(added) = Len(Entries)
            /\ \A k \in 1..Len(added) :
                   Entries[k].file_path = canonicalize(added[k].file_path)
            /\ scan.pc = "done" => n = Len(scan.wav_files)

C17_Witness ==
    /\ scan.pc = "done"
    /\ Len(scan.wav_files) = 3
    /\ scan.attempts[1].status = "FileNotFoundError"
    /\ scan.attempts[2].status = "ok"
    /\ scan.attempts[3].status = "FileNotFoundError"
    /\ scan.processed_count = 1
    /\ scan.error_count = 2

\* C18: determine_drone_type never fails.  It returns Bebop when the path,
\* read without regard to case, contains "bebop" (whatever else it
\* contains), otherwise Mambo when it contains "membo" or "mambo",
\* otherwise Bebop; it produces one correction diagnostic exactly when the
\* path contains "membo" and not "bebop", and none otherwise.
Occurs(text, word) ==
    \E i \in 1..Len(text) :
        /\ i + Len(word) - 1 <= Len(text)
        /\ \A k \in 1..Len(word) :
               text[i + k - 1] \in {word[k], UpperChar(word[k])}

C18_DetermineDroneType ==
    last.op = "determine_drone_type" =>
        LET text == StrChars(last.arg[1])
            bebop == Occurs(text, BEBOP_TEXT)
            membo == Occurs(text, MEMBO_TEXT)
            mambo == Occurs(text, MAMBO_TEXT)
        IN  /\ last.status = "ok"
            /\ last.error = <<>>
            /\ last.result = <<IF bebop THEN BEBOP
                               ELSE IF membo \/ mambo THEN MAMBO
                               ELSE BEBOP>>
            /\ last.warned = IF membo /\ ~bebop
                             THEN <<[original |-> MEMBO_TEXT,
                                     corrected |-> MAMBO_TEXT]>>
                             ELSE <<>>

C18_Witness ==
    /\ last.op = "determine_drone_type"
    /\ last.arg = << <<"mem", "mambo_membo">> >>
    /\ last.result = <<MAMBO>>
    /\ Len(last.warned) = 1

====
